---- MODULE Spec2Model ----
(***************************************************************************)
(* Model of serial_bridge.py: an HTTP server (ThreadingHTTPServer, one     *)
(* thread per connection) that forwards wind-speed readings to one shared  *)
(* serial connection.                                                      *)
(*                                                                         *)
(* Readings are binary floating-point numbers; the model keeps the ones    *)
(* that are multiples of 1/4 (exactly representable) as an integer number  *)
(* of quarters, so 28 is 7.0 and 49 is 12.25.  Request bodies are          *)
(* sequences of JSON tokens; Content-Length counts tokens.                 *)
(***************************************************************************)
EXTENDS Integers, Sequences, FiniteSets, TLC

\* ------------------------------------------------------------------ bounds
MaxReq == 2          \* connections accepted in one run
MaxPartial == 1      \* os.write calls of one run that accept only part of the data

\* ------------------------------------------------------- JSON token model
Tok(t, v) == [t |-> t, v |-> v]

LBRACE == Tok("{", 0)
RBRACE == Tok("}", 0)
LBRACK == Tok("[", 0)
RBRACK == Tok("]", 0)
COLON  == Tok(":", 0)
KEY    == Tok("key", 1)      \* the string "windSpeedKmh"
OTHERKEY == Tok("key", 2)    \* the string "speed"
NumTok(q)    == Tok("num", q)      \* a number literal worth q quarters
NumStrTok(q) == Tok("numstr", q)   \* a string literal such as "7.0"
FASTSTR == Tok("str", 0)           \* the string "fast"
NULLTOK == Tok("null", 0)
TRUETOK == Tok("true", 0)
NANTOK  == Tok("NaN", 0)           \* the literal NaN, accepted by json.loads
BIGINT  == Tok("bigint", 0)        \* an integer literal of 400 digits

ScalarKinds == {"num", "numstr", "str", "null", "true", "NaN", "bigint"}

\* Parsed JSON data: k is the Python type, v its payload.
Data(k, v) == [k |-> k, v |-> v]

\* json.loads on a scalar token.
ScalarData(tok) ==
    CASE tok.t = "num"    -> Data("float", tok.v)
      [] tok.t = "numstr" -> Data("numstr", tok.v)
      [] tok.t = "str"    -> Data("str", 0)
      [] tok.t = "key"    -> Data("str", 0)
      [] tok.t = "null"   -> Data("None", 0)
      [] tok.t = "true"   -> Data("bool", 1)
      [] tok.t = "NaN"    -> Data("nan", 0)
      [] tok.t = "bigint" -> Data("bigint", 0)

IsScalarTok(tok) == tok.t \in ScalarKinds \/ tok.t = "key"

\* A member value: a scalar, {} or [].  Result: [ok, data, n] where n is the
\* number of tokens consumed.
ParseMember(toks) ==
    IF Len(toks) = 0 THEN [ok |-> FALSE, data |-> Data("None", 0), n |-> 0]
    ELSE IF IsScalarTok(toks[1])
         THEN [ok |-> TRUE, data |-> ScalarData(toks[1]), n |-> 1]
    ELSE IF Len(toks) >= 2 /\ toks[1] = LBRACE /\ toks[2] = RBRACE
         THEN [ok |-> TRUE, data |-> Data("dict", 0), n |-> 2]
    ELSE IF Len(toks) >= 2 /\ toks[1] = LBRACK /\ toks[2] = RBRACK
         THEN [ok |-> TRUE, data |-> Data("list", 0), n |-> 2]
    ELSE [ok |-> FALSE, data |-> Data("None", 0), n |-> 0]

Rest(toks, n) == SubSeq(toks, n + 1, Len(toks))

JsonError == [ok |-> FALSE, top |-> "none", key |-> 0, member |-> Data("None", 0)]

\* json.loads(payload): the whole payload must be one JSON document.  top is
\* the type of the document; for a dict, key is the member's key (0 when the
\* dict is empty) and member its value.
json_loads(toks) ==
    IF Len(toks) = 0 THEN JsonError
    ELSE IF toks[1] = LBRACE THEN
        IF Len(toks) = 2 /\ toks[2] = RBRACE
        THEN [ok |-> TRUE, top |-> "dict", key |-> 0, member |-> Data("None", 0)]
        ELSE IF Len(toks) >= 4 /\ toks[2].t = "key" /\ toks[3] = COLON
        THEN LET m == ParseMember(Rest(toks, 3))
             IN IF m.ok /\ Rest(toks, 3 + m.n) = <<RBRACE>>
                THEN [ok |-> TRUE, top |-> "dict", key |-> toks[2].v, member |-> m.data]
                ELSE JsonError
        ELSE JsonError
    ELSE IF toks[1] = LBRACK THEN
        IF Len(toks) = 2 /\ toks[2] = RBRACK
        THEN [ok |-> TRUE, top |-> "list", key |-> 0, member |-> Data("None", 0)]
        ELSE IF Len(toks) = 3 /\ IsScalarTok(toks[2]) /\ toks[3] = RBRACK
        THEN [ok |-> TRUE, top |-> "list", key |-> 0, member |-> ScalarData(toks[2])]
        ELSE JsonError
    ELSE IF Len(toks) = 1 /\ IsScalarTok(toks[1])
        THEN [ok |-> TRUE, top |-> ScalarData(toks[1]).k, key |-> 0, member |-> ScalarData(toks[1])]
    ELSE JsonError

\* ------------------------------------------------------------ float(...)
\* Outcome of float(x): a value, or the exception it raises.
FloatVal(cls, q) == [cls |-> cls, q |-> q]
NoFloat == FloatVal("none", 0)

float(d) ==
    CASE d.k = "float"  -> [exc |-> "none", val |-> FloatVal("finite", d.v)]
      [] d.k = "numstr" -> [exc |-> "none", val |-> FloatVal("finite", d.v)]
      [] d.k = "bool"   -> [exc |-> "none", val |-> FloatVal("finite", 4 * d.v)]
      [] d.k = "nan"    -> [exc |-> "none", val |-> FloatVal("nan", 0)]
      [] d.k = "str"    -> [exc |-> "ValueError", val |-> NoFloat]
      [] d.k = "bigint" -> [exc |-> "OverflowError", val |-> NoFloat]
      [] OTHER          -> [exc |-> "TypeError", val |-> NoFloat]

\* ------------------------------------------------------- f"{v:.1f}\n"
Digits == <<"0", "1", "2", "3", "4", "5", "6", "7", "8", "9">>

RECURSIVE IntToChars(_)
IntToChars(n) ==
    IF n < 10 THEN <<Digits[n + 1]>>
    ELSE IntToChars(n \div 10) \o <<Digits[(n % 10) + 1]>>

Abs(x) == IF x < 0 THEN -x ELSE x

\* Variant: a tie is rounded up instead of to the even digit.
RoundTenths_HalfUp(a) ==
    LET n == a * 10
    IN IF (n % 4) * 2 >= 4 THEN (n \div 4) + 1 ELSE n \div 4

\* Tenths of |q|/4, rounded half to even as the correctly rounded %.1f does
\* for an exactly representable value.
RoundTenths(a) ==
    LET n == a * 10
        t == n \div 4
        r == n % 4
    IN IF r * 2 > 4 THEN t + 1
       ELSE IF r * 2 < 4 THEN t
       ELSE IF t % 2 = 0 THEN t ELSE t + 1

\* The bytes of f"{wind_speed:.1f}\n".encode("utf-8"), one character each.
FormatMessage(ws) ==
    IF ws.cls = "nan" THEN <<"n", "a", "n", "\n">>
    ELSE LET t == RoundTenths(Abs(ws.q))
         IN (IF ws.q < 0 THEN <<"-">> ELSE <<>>)
            \o IntToChars(t \div 10) \o <<".", Digits[(t % 10) + 1], "\n">>

\* ------------------------------------------------------- request universe
WIND_PATH == "/wind-speed"

CL(kind, n) == [kind |-> kind, n |-> n]
Request(method, path, cl, body) ==
    [method |-> method, path |-> path, cl |-> cl, body |-> body]

Doc(tok) == <<LBRACE, KEY, COLON, tok, RBRACE>>
Exact(body) == CL("int", Len(body))

\* Readings sent as number literals, in quarters: 7.0, 12.25, -1.25.
Readings == {28, 49, -5}

NumericDocs == {Doc(NumTok(q)) : q \in Readings}

ObjectDocs ==
    {Doc(t) : t \in {NumStrTok(3), FASTSTR, NULLTOK, TRUETOK, NANTOK, BIGINT}}
    \cup {<<LBRACE, KEY, COLON, LBRACE, RBRACE, RBRACE>>,
          <<LBRACE, KEY, COLON, LBRACK, RBRACK, RBRACE>>,
          <<LBRACE, RBRACE>>,
          <<LBRACE, OTHERKEY, COLON, NumTok(28), RBRACE>>}

NonObjectDocs ==
    {<<LBRACK, NumTok(28), RBRACK>>, <<NumTok(28)>>, <<FASTSTR>>, <<NULLTOK>>}

MalformedDocs == {<<LBRACE, KEY, NumTok(28), RBRACE>>}

Requests ==
    {Request("POST", WIND_PATH, Exact(b), b) :
        b \in NumericDocs \cup ObjectDocs \cup NonObjectDocs \cup MalformedDocs}
    \cup {Request("POST", WIND_PATH, c, Doc(NumTok(28))) :
            c \in {CL("absent", 0), CL("int", 0), CL("int", 4), CL("int", 6),
                   CL("text", 0)}}
    \cup {Request("POST", "/other", Exact(b), b) :
            b \in {Doc(NumTok(28))} \cup MalformedDocs}
    \cup {Request("POST", "/other", c, Doc(NumTok(28))) :
            c \in {CL("text", 0), CL("absent", 0)}}
    \cup {Request("OPTIONS", WIND_PATH, CL("absent", 0), <<>>),
          Request("OPTIONS", "/other", Exact(Doc(NumTok(28))), Doc(NumTok(28)))}
    \cup {Request("GET", p, CL("absent", 0), <<>>) : p \in {WIND_PATH, "/other"}}
    \cup {Request("PUT", WIND_PATH, Exact(Doc(NumTok(28))), Doc(NumTok(28))),
          Request("DELETE", "/other", CL("absent", 0), <<>>)}

\* The first connection carries any request; the connections that follow it
\* come from sensors posting the reading 7.0.
SensorRequests == {Request("POST", WIND_PATH, Exact(Doc(NumTok(28))), Doc(NumTok(28)))}

RequestsOf(n) == IF n = 1 THEN Requests ELSE SensorRequests

NoRequest == Request("none", "", CL("absent", 0), <<>>)

\* ---------------------------------------------------------------- responses
Body(kind, val, details) == [kind |-> kind, val |-> val, details |-> details]
Response(status, headers, body) ==
    [status |-> status, headers |-> headers, body |-> body]

\* Variant: the Access-Control-Allow-Headers header is forgotten.
set_cors_headers_Incomplete ==
    {<<"Access-Control-Allow-Origin", "*">>,
     <<"Access-Control-Allow-Methods", "POST, OPTIONS">>}

set_cors_headers ==
    {<<"Access-Control-Allow-Origin", "*">>,
     <<"Access-Control-Allow-Methods", "POST, OPTIONS">>,
     <<"Access-Control-Allow-Headers", "Content-Type">>}

JsonContentType == {<<"Content-Type", "application/json">>}

\* Variant: the pre-flight is answered 200 with a JSON body.
OptionsResponse_OkBody ==
    Response(200, set_cors_headers, Body("status", "ok", ""))

OptionsResponse == Response(204, set_cors_headers, Body("none", "", ""))
\* Variant: the unknown path is reported as a bad request.
NotFoundResponse_BadRequest ==
    Response(400, set_cors_headers \cup JsonContentType, Body("error", "not_found", ""))

NotFoundResponse ==
    Response(404, set_cors_headers \cup JsonContentType, Body("error", "not_found", ""))
InvalidPayloadResponse ==
    Response(400, set_cors_headers \cup JsonContentType, Body("error", "invalid_payload", ""))
\* Variant: the failure message is not put in the body.
SerialErrorResponse_NoDetails(details) ==
    Response(500, set_cors_headers \cup JsonContentType, Body("error", "serial_error", ""))

SerialErrorResponse(details) ==
    Response(500, set_cors_headers \cup JsonContentType, Body("error", "serial_error", details))
OkResponse ==
    Response(200, set_cors_headers \cup JsonContentType, Body("status", "ok", ""))
\* BaseHTTPRequestHandler.send_error for a method without a do_<METHOD>.
UnsupportedMethodResponse ==
    Response(501, {<<"Content-Type", "text/html;charset=utf-8">>, <<"Connection", "close">>},
             Body("html", "Unsupported method", ""))

\* -------------------------------------------------------------------- state
VARIABLES
    mainPc,            \* position of the main thread
    exitCode,          \* exit status of the process, -1 while it runs
    ser,               \* serial.Serial of main: "none", "failed" (the constructor
                       \* raised), "open", "closed"
    serial_conn,       \* WindSpeedHandler.serial_conn: "None" or "ser"
    listening,         \* the listening socket exists
    handlersInstalled, \* shutdown_handler is installed for SIGINT and SIGTERM
    shutdown_request,  \* BaseServer.__shutdown_request
    is_shut_down,      \* BaseServer.__is_shut_down (an Event)
    closeCount,        \* calls of ser.close()
    signalled,         \* a termination signal arrived while serve_forever ran
    device,            \* the device behind the port: "ready", "stalled", "broken"
    reqs,              \* the handler thread of each accepted connection
    nreq,              \* connections accepted so far
    partials,          \* os.write calls so far that accepted only part of the data
    wire               \* bytes transmitted to the device, each tagged with its writer

vars == <<mainPc, exitCode, ser, serial_conn, listening, handlersInstalled,
          shutdown_request, is_shut_down, closeCount, signalled, device,
          reqs, nreq, partials, wire>>

mainVars == <<mainPc, exitCode, ser, serial_conn, listening, handlersInstalled,
              shutdown_request, is_shut_down, closeCount, signalled>>

ReqIds == 1..MaxReq

\* serial.Serial(SERIAL_PORT, BAUD_RATE, timeout=1): timeout is the read
\* timeout; write_timeout keeps its default.
READ_TIMEOUT == 1
WRITE_TIMEOUT == "None"

IdleHandler ==
    [pc |-> "idle", in |-> NoRequest, wind_speed |-> NoFloat, message |-> <<>>,
     sent |-> 0, calls |-> <<>>, wr |-> "none", responses |-> <<>>,
     outcome |-> "none", exc |-> "none",
     readCalls |-> 0,      \* calls of self.rfile.read
     parsed |-> FALSE]     \* json.loads was called

Init ==
    /\ mainPc = "open_serial"
    /\ exitCode = -1
    /\ ser = "none"
    /\ serial_conn = "None"
    /\ listening = FALSE
    /\ handlersInstalled = FALSE
    /\ shutdown_request = FALSE
    /\ is_shut_down = FALSE
    /\ closeCount = 0
    /\ signalled = FALSE
    /\ device = "ready"
    /\ reqs = [r \in ReqIds |-> IdleHandler]
    /\ nreq = 0
    /\ partials = 0
    /\ wire = <<>>

Running == exitCode = -1

\* ------------------------------------------------------------- main thread
\* serial.Serial(...) succeeds.
OpenSerial ==
    /\ Running /\ mainPc = "open_serial"
    /\ ser' = "open"
    /\ mainPc' = "create_server"
    /\ UNCHANGED <<exitCode, serial_conn, listening, handlersInstalled, shutdown_request,
                   is_shut_down, closeCount, signalled, device, reqs, nreq, partials, wire>>

\* Variant: the failure is logged and main goes on to create the server.
OpenSerialFails_Continues ==
    /\ Running /\ mainPc = "open_serial"
    /\ ser' = "failed"
    /\ mainPc' = "create_server"
    /\ UNCHANGED <<exitCode, serial_conn, listening, handlersInstalled, shutdown_request,
                   is_shut_down, closeCount, signalled, device, reqs, nreq, partials, wire>>

\* serial.Serial(...) raises SerialException: raise SystemExit(1).
OpenSerialFails ==
    /\ Running /\ mainPc = "open_serial"
    /\ ser' = "failed"
    /\ mainPc' = "exited"
    /\ exitCode' = 1
    /\ UNCHANGED <<serial_conn, listening, handlersInstalled, shutdown_request,
                   is_shut_down, closeCount, signalled, device, reqs, nreq, partials, wire>>

\* create_server(ser): the class attribute is set, the socket is bound and
\* listens.
CreateServer ==
    /\ Running /\ mainPc = "create_server"
    /\ serial_conn' = "ser"
    /\ listening' = TRUE
    /\ mainPc' = "install_handlers"
    /\ UNCHANGED <<exitCode, ser, handlersInstalled, shutdown_request, is_shut_down,
                   closeCount, signalled, device, reqs, nreq, partials, wire>>

\* signal.signal(SIGINT, ...); signal.signal(SIGTERM, ...)
InstallHandlers ==
    /\ Running /\ mainPc = "install_handlers"
    /\ handlersInstalled' = TRUE
    /\ mainPc' = "serve_forever"
    /\ UNCHANGED <<exitCode, ser, serial_conn, listening, shutdown_request, is_shut_down,
                   closeCount, signalled, device, reqs, nreq, partials, wire>>

\* server.serve_forever() is entered: __is_shut_down.clear().
EnterServeForever ==
    /\ Running /\ mainPc = "serve_forever"
    /\ is_shut_down' = FALSE
    /\ mainPc' = "serving"
    /\ UNCHANGED <<exitCode, ser, serial_conn, listening, handlersInstalled,
                   shutdown_request, closeCount, signalled, device, reqs, nreq, partials, wire>>

\* Variant: the server handles a connection on the main thread (HTTPServer
\* instead of ThreadingHTTPServer), so it accepts the next one only when the
\* handlers before it have returned.
Accept_OneAtATime ==
    /\ Running /\ mainPc = "serving" /\ ~shutdown_request
    /\ nreq < MaxReq
    /\ \A r \in 1..MaxReq : reqs[r].pc \in {"idle", "done"}
    /\ \E in \in RequestsOf(nreq + 1) :
          reqs' = [reqs EXCEPT ![nreq + 1] = [IdleHandler EXCEPT !.pc = "dispatch", !.in = in]]
    /\ nreq' = nreq + 1
    /\ UNCHANGED <<mainVars, device, partials, wire>>

\* One iteration of the serve_forever loop with a connection ready: the
\* request is read and a daemon thread is started for it.
Accept ==
    /\ Running /\ mainPc = "serving" /\ ~shutdown_request
    /\ nreq < MaxReq
    /\ \E in \in RequestsOf(nreq + 1) :
          reqs' = [reqs EXCEPT ![nreq + 1] = [IdleHandler EXCEPT !.pc = "dispatch", !.in = in]]
    /\ nreq' = nreq + 1
    /\ UNCHANGED <<mainVars, device, partials, wire>>

\* A signal before the handlers are installed: SIGINT raises KeyboardInterrupt
\* in main, caught by the __main__ block (sys.exit(0)); SIGTERM ends the
\* process with the default disposition (status 128 + 15).
SignalDefault ==
    /\ Running /\ ~handlersInstalled
    /\ \E sig \in {"SIGINT", "SIGTERM"} :
          exitCode' = IF sig = "SIGINT" THEN 0 ELSE 143
    /\ mainPc' = "exited"
    /\ UNCHANGED <<ser, serial_conn, listening, handlersInstalled, shutdown_request,
                   is_shut_down, closeCount, signalled, device, reqs, nreq, partials, wire>>

\* shutdown_handler runs on the main thread, on top of whatever main was
\* doing: server.shutdown() sets __shutdown_request and waits for
\* __is_shut_down.  The event is set only by the finally clause of
\* serve_forever, which runs on this same thread, below the handler.
Signal ==
    /\ Running /\ handlersInstalled
    /\ shutdown_request' = TRUE
    /\ signalled' = (signalled \/ mainPc = "serving")
    /\ mainPc' = IF is_shut_down THEN mainPc ELSE "shutdown_wait"
    /\ UNCHANGED <<exitCode, ser, serial_conn, listening, handlersInstalled, is_shut_down,
                   closeCount, device, reqs, nreq, partials, wire>>

\* serve_forever ends with an exception (an error of the selector): its
\* finally clause resets __shutdown_request and sets __is_shut_down.
ServeForeverRaises ==
    /\ Running /\ mainPc = "serving"
    /\ shutdown_request' = FALSE
    /\ is_shut_down' = TRUE
    /\ mainPc' = "finally"
    /\ UNCHANGED <<exitCode, ser, serial_conn, listening, handlersInstalled, closeCount,
                   signalled, device, reqs, nreq, partials, wire>>

\* finally: ser.close()
CloseSerial ==
    /\ Running /\ mainPc = "finally"
    /\ ser' = "closed"
    /\ closeCount' = closeCount + 1
    /\ mainPc' = "closed"
    /\ UNCHANGED <<exitCode, serial_conn, listening, handlersInstalled, shutdown_request,
                   is_shut_down, signalled, device, reqs, nreq, partials, wire>>

\* The exception leaves main; it is not a KeyboardInterrupt, so the
\* interpreter exits with status 1.  The handler threads are daemons.
ExitAfterError ==
    /\ Running /\ mainPc = "closed"
    /\ mainPc' = "exited"
    /\ exitCode' = 1
    /\ listening' = FALSE
    /\ UNCHANGED <<ser, serial_conn, handlersInstalled, shutdown_request, is_shut_down,
                   closeCount, signalled, device, reqs, nreq, partials, wire>>

\* ------------------------------------------------------------------ device
DeviceStalls ==
    /\ Running /\ ser = "open" /\ device = "ready"
    /\ device' = "stalled"
    /\ UNCHANGED <<mainVars, reqs, nreq, partials, wire>>

DeviceResumes ==
    /\ Running /\ ser = "open" /\ device = "stalled"
    /\ device' = "ready"
    /\ UNCHANGED <<mainVars, reqs, nreq, partials, wire>>

DeviceBreaks ==
    /\ Running /\ ser = "open" /\ device \in {"ready", "stalled"}
    /\ device' = "broken"
    /\ UNCHANGED <<mainVars, reqs, nreq, partials, wire>>

\* --------------------------------------------------------- handler threads
Min(a, b) == IF a < b THEN a ELSE b

\* int(self.headers.get("Content-Length", "0"))
ContentLength(in) ==
    CASE in.cl.kind = "absent" -> [exc |-> "none", n |-> 0]
      [] in.cl.kind = "int"    -> [exc |-> "none", n |-> in.cl.n]
      [] in.cl.kind = "text"   -> [exc |-> "ValueError", n |-> 0]

\* self.rfile.read(length) if length else b"{}"
ReadPayload(in, length) ==
    IF length # 0 THEN SubSeq(in.body, 1, Min(length, Len(in.body)))
    ELSE <<LBRACE, RBRACE>>

\* The body of the try block of do_POST: the exception raised, or the reading.
ParseBody(in, length) ==
    LET data == json_loads(ReadPayload(in, length))
    IN IF ~data.ok THEN [exc |-> "JSONDecodeError", val |-> NoFloat]
       ELSE IF data.top # "dict" THEN [exc |-> "TypeError", val |-> NoFloat]
       ELSE IF data.key # KEY.v THEN [exc |-> "KeyError", val |-> NoFloat]
       ELSE float(data.member)

\* except (json.JSONDecodeError, KeyError, TypeError, ValueError)
CaughtParseErrors == {"JSONDecodeError", "KeyError", "TypeError", "ValueError"}

\* except (AssertionError, serial.SerialException)
PORT_NOT_OPEN == "Attempting to use a port that is not open"
WRITE_FAILED == "write failed: [Errno 5] Input/output error"
WRITE_TIMED_OUT == "Write timeout"

Finish(h, outcome, response) ==
    [h EXCEPT !.pc = "done", !.outcome = outcome,
              !.responses = Append(h.responses, response)]

\* An exception leaves the handler: socketserver logs it and closes the
\* connection; nothing is sent.
Crash(h, exc) == [h EXCEPT !.pc = "done", !.outcome = "Crashed", !.exc = exc]

do_OPTIONS(r) ==
    /\ Running /\ reqs[r].pc = "dispatch" /\ reqs[r].in.method = "OPTIONS"
    /\ reqs' = [reqs EXCEPT ![r] = Finish(reqs[r], "Options", OptionsResponse)]
    /\ UNCHANGED <<mainVars, device, nreq, partials, wire>>

\* handle_one_request finds no do_<METHOD> attribute: send_error(501).
UnsupportedMethod(r) ==
    /\ Running /\ reqs[r].pc = "dispatch"
    /\ reqs[r].in.method \notin {"POST", "OPTIONS"}
    /\ reqs' = [reqs EXCEPT ![r] = Finish(reqs[r], "Unsupported", UnsupportedMethodResponse)]
    /\ UNCHANGED <<mainVars, device, nreq, partials, wire>>

\* Variant: the declared length is parsed and the body read before the path
\* is looked at.
PostNotFound_AfterRead(r) ==
    /\ Running /\ reqs[r].pc = "dispatch" /\ reqs[r].in.method = "POST"
    /\ reqs[r].in.path # WIND_PATH
    /\ LET h == reqs[r]
           length == ContentLength(h.in)
       IN reqs' = [reqs EXCEPT ![r] =
            IF length.exc # "none" THEN Crash(h, length.exc)
            ELSE Finish([h EXCEPT !.readCalls = IF length.n # 0 THEN 1 ELSE 0],
                        "NotFound", NotFoundResponse)]
    /\ UNCHANGED <<mainVars, device, nreq, partials, wire>>

\* do_POST, lines 42-48.
PostNotFound(r) ==
    /\ Running /\ reqs[r].pc = "dispatch" /\ reqs[r].in.method = "POST"
    /\ reqs[r].in.path # WIND_PATH
    /\ reqs' = [reqs EXCEPT ![r] = Finish(reqs[r], "NotFound", NotFoundResponse)]
    /\ UNCHANGED <<mainVars, device, nreq, partials, wire>>

\* do_POST, lines 52-63, once rfile.read has returned (or was not called):
\* json.loads, float, the except clause, the formatting.
AfterRead(h, length) ==
    LET parsed == ParseBody(h.in, length)
        g == [h EXCEPT !.parsed = TRUE,
                       !.readCalls = IF length # 0 THEN 1 ELSE 0]
    IN IF parsed.exc \in CaughtParseErrors
       THEN Finish(g, "InvalidPayload", InvalidPayloadResponse)
       ELSE IF parsed.exc # "none" THEN Crash(g, parsed.exc)
       ELSE [g EXCEPT !.pc = "forward", !.wind_speed = parsed.val,
                      !.message = FormatMessage(parsed.val)]

\* do_POST, lines 50-63.  rfile.read(length) blocks while the client has sent
\* fewer bytes than it declared.
PostParse(r) ==
    /\ Running /\ reqs[r].pc = "dispatch" /\ reqs[r].in.method = "POST"
    /\ reqs[r].in.path = WIND_PATH
    /\ LET h == reqs[r]
           length == ContentLength(h.in)
       IN reqs' = [reqs EXCEPT ![r] =
            IF length.exc # "none" THEN Crash(h, length.exc)
            ELSE IF length.n > Len(h.in.body)
                 THEN [h EXCEPT !.pc = "reading", !.readCalls = 1]
            ELSE AfterRead(h, length.n)]
    /\ UNCHANGED <<mainVars, device, nreq, partials, wire>>

\* The client of a stalled request ends its body (it closes its side of the
\* connection): rfile.read returns the bytes that arrived and do_POST goes on.
ClientEndsBody(r) ==
    /\ Running /\ reqs[r].pc = "reading"
    /\ reqs' = [reqs EXCEPT ![r] = AfterRead(reqs[r], ContentLength(reqs[r].in).n)]
    /\ UNCHANGED <<mainVars, device, nreq, partials, wire>>

\* do_POST, lines 65-67: the assertion, then the call of write, which starts
\* by checking that the port is open.
PostForward(r) ==
    /\ Running /\ reqs[r].pc = "forward"
    /\ LET h == reqs[r]
       IN reqs' = [reqs EXCEPT ![r] =
            IF serial_conn = "None"
            THEN Finish(h, "SerialError", SerialErrorResponse(""))
            ELSE IF ser # "open"
            THEN Finish([h EXCEPT !.calls = Append(h.calls, h.message), !.wr = "failed"],
                        "SerialError", SerialErrorResponse(PORT_NOT_OPEN))
            ELSE [h EXCEPT !.pc = "writing", !.calls = Append(h.calls, h.message),
                           !.wr = "pending"]]
    /\ UNCHANGED <<mainVars, device, nreq, partials, wire>>

Tag(r, chars) == [i \in 1..Len(chars) |-> [r |-> r, ch |-> chars[i]]]

\* Inside serial_conn.write: one os.write on the descriptor, which accepts a
\* non-empty prefix of what is left.  No lock is held.
WriteChunk(r) ==
    /\ Running /\ reqs[r].pc = "writing"
    /\ ser = "open" /\ device = "ready"
    /\ LET h == reqs[r]
       IN \E n \in 1..(Len(h.message) - h.sent) :
            /\ n < Len(h.message) - h.sent => partials < MaxPartial
            /\ partials' = IF n < Len(h.message) - h.sent THEN partials + 1 ELSE partials
            /\ wire' = wire \o Tag(r, SubSeq(h.message, h.sent + 1, h.sent + n))
            /\ reqs' = [reqs EXCEPT ![r] =
                 IF h.sent + n = Len(h.message)
                 THEN [h EXCEPT !.sent = h.sent + n, !.wr = "ok", !.pc = "respond_ok"]
                 ELSE [h EXCEPT !.sent = h.sent + n]]
    /\ UNCHANGED <<mainVars, device, nreq>>

\* Variant: a failed write is attempted once more before it is reported.
WriteFail_Retry(r) ==
    /\ Running /\ reqs[r].pc = "writing"
    /\ \/ ser # "open"
       \/ device = "broken"
    /\ LET h == reqs[r]
       IN reqs' = [reqs EXCEPT ![r] =
            IF Len(h.calls) < 2
            THEN [h EXCEPT !.calls = Append(h.calls, h.message)]
            ELSE Finish([h EXCEPT !.wr = "failed"], "SerialError",
                        SerialErrorResponse(WRITE_FAILED))]
    /\ UNCHANGED <<mainVars, device, nreq, partials, wire>>

\* serial_conn.write raises SerialException; do_POST, lines 68-76.  A stalled
\* device makes write raise only when a write timeout is configured.
WriteFail(r) ==
    /\ Running /\ reqs[r].pc = "writing"
    /\ \/ ser # "open"
       \/ device = "broken"
       \/ device = "stalled" /\ WRITE_TIMEOUT # "None"
    /\ LET h == reqs[r]
           details == IF ser # "open" THEN PORT_NOT_OPEN
                      ELSE IF device = "broken" THEN WRITE_FAILED
                      ELSE WRITE_TIMED_OUT
       IN reqs' = [reqs EXCEPT ![r] =
            Finish([h EXCEPT !.wr = "failed"], "SerialError", SerialErrorResponse(details))]
    /\ UNCHANGED <<mainVars, device, nreq, partials, wire>>

\* do_POST, lines 78-82.
PostOk(r) ==
    /\ Running /\ reqs[r].pc = "respond_ok"
    /\ reqs' = [reqs EXCEPT ![r] = Finish(reqs[r], "Ok", OkResponse)]
    /\ UNCHANGED <<mainVars, device, nreq, partials, wire>>

\* ------------------------------------------------------------ specification
HandlerStep(r) ==
    \/ do_OPTIONS(r)
    \/ UnsupportedMethod(r)
    \/ PostNotFound(r)
    \/ PostParse(r)
    \/ PostForward(r)
    \/ WriteChunk(r)
    \/ WriteFail(r)
    \/ PostOk(r)

MainStep ==
    \/ OpenSerial
    \/ OpenSerialFails
    \/ CreateServer
    \/ InstallHandlers
    \/ EnterServeForever
    \/ Accept
    \/ CloseSerial
    \/ ExitAfterError

Environment ==
    \/ SignalDefault
    \/ Signal
    \/ ServeForeverRaises
    \/ DeviceStalls
    \/ DeviceResumes
    \/ DeviceBreaks
    \/ \E r \in ReqIds : ClientEndsBody(r)

Next ==
    \/ MainStep
    \/ Environment
    \/ \E r \in ReqIds : HandlerStep(r)

Spec == Init /\ [][Next]_vars

\* The threads are scheduled fairly, and a handler thread that can run
\* infinitely often does run; signals, connections, errors of the selector
\* and the behaviour of the device and of the clients are not promised.
Fairness ==
    /\ WF_vars(OpenSerial \/ OpenSerialFails)
    /\ WF_vars(CreateServer)
    /\ WF_vars(InstallHandlers)
    /\ WF_vars(EnterServeForever)
    /\ WF_vars(CloseSerial)
    /\ WF_vars(ExitAfterError)
    /\ \A r \in ReqIds : SF_vars(HandlerStep(r))

FairSpec == Spec /\ Fairness

\* =================================================================== claims
Done(r) == reqs[r].pc = "done"
IsWindPost(in) == in.method = "POST" /\ in.path = WIND_PATH
CorsPairs ==
    {<<"Access-Control-Allow-Origin", "*">>,
     <<"Access-Control-Allow-Methods", "POST, OPTIONS">>,
     <<"Access-Control-Allow-Headers", "Content-Type">>}

\* One response, with this status and this JSON body.
Answered(r, status, kind, val) ==
    /\ Len(reqs[r].responses) = 1
    /\ reqs[r].responses[1].status = status
    /\ reqs[r].responses[1].body.kind = kind
    /\ reqs[r].responses[1].body.val = val

\* The text of each reading of the model with one digit after the point.
ExpectedLine(q) ==
    CASE q = 28 -> <<"7", ".", "0", "\n">>
      [] q = 49 -> <<"1", "2", ".", "2", "\n">>
      [] q = -5 -> <<"-", "1", ".", "2", "\n">>

\* C1: a POST to /wind-speed whose body is {"windSpeedKmh": v} with a number
\* v, and whose serial write succeeded, is answered 200 {"status":"ok"}, and
\* write was called exactly once for it, with v formatted to one decimal and
\* a newline.
C1_OkAndOneWrite ==
    \A r \in ReqIds : \A q \in Readings :
        (Done(r) /\ IsWindPost(reqs[r].in) /\ reqs[r].in.body = Doc(NumTok(q))
            /\ reqs[r].wr = "ok")
        => /\ Answered(r, 200, "status", "ok")
           /\ reqs[r].calls = <<ExpectedLine(q)>>

C1_Witness ==
    \E r \in ReqIds :
        /\ Done(r) /\ IsWindPost(reqs[r].in) /\ reqs[r].in.body = Doc(NumTok(49))
        /\ reqs[r].wr = "ok" /\ Answered(r, 200, "status", "ok")

\* The payloads the claim C2 calls invalid: a declared length that does not
\* parse, truncated or malformed JSON, JSON that is not an object, an object
\* without windSpeedKmh, or a value that is a non-parsing string, an object,
\* null or an array.
InvalidPayloadInput(in) ==
    \/ in.cl.kind = "text"
    \/ in.cl.kind = "int" /\ in.cl.n > 0 /\ in.cl.n < Len(in.body)
    \/ in.body \in MalformedDocs \cup NonObjectDocs
    \/ in.body \in {<<LBRACE, RBRACE>>, <<LBRACE, OTHERKEY, COLON, NumTok(28), RBRACE>>}
    \/ in.body \in {Doc(FASTSTR), Doc(NULLTOK),
                    <<LBRACE, KEY, COLON, LBRACE, RBRACE, RBRACE>>,
                    <<LBRACE, KEY, COLON, LBRACK, RBRACK, RBRACE>>}

\* C2: every POST to /wind-speed with an invalid payload (see
\* InvalidPayloadInput) is answered 400 {"error":"invalid_payload"} and makes
\* no serial write.
C2_InvalidPayloadIs400 ==
    \A r \in ReqIds :
        (Done(r) /\ IsWindPost(reqs[r].in) /\ InvalidPayloadInput(reqs[r].in))
        => /\ Answered(r, 400, "error", "invalid_payload")
           /\ reqs[r].calls = <<>>

\* C3: the calls of the serial write of concurrent requests are mutually
\* exclusive, as the device observes it: every line on the wire is complete
\* and the bytes of two requests are never interleaved inside a line, that
\* is, a byte that is not a newline is followed by a byte of the same request.
C3_WritesSerialized ==
    \A i \in 1..(Len(wire) - 1) :
        wire[i].ch # "\n" => wire[i + 1].r = wire[i].r

\* C4: after a termination signal delivered while the server is serving, the
\* process eventually ends with exit status 0, the serial connection closed
\* exactly once and every accepted request finished.
C4_SignalLeadsToCleanExit ==
    signalled ~> (/\ mainPc = "exited" /\ exitCode = 0 /\ closeCount = 1
                  /\ \A r \in ReqIds : reqs[r].pc \in {"idle", "done"})

\* C5: a valid POST whose write failed, or that found the sink
\* uninitialized, is answered 500 with error "serial_error"; details is
\* non-empty when the write failed; 200 is never sent for it.
C5_FailedWriteIs500 ==
    \A r \in ReqIds :
        LET h == reqs[r]
            forwarded == Done(r) /\ h.message # <<>>
        IN /\ (h.wr = "failed" \/ (forwarded /\ h.wr = "none"))
                => /\ Done(r)
                   /\ Answered(r, 500, "error", "serial_error")
                   /\ \A i \in 1..Len(h.responses) : h.responses[i].status # 200
           /\ h.wr = "failed" => h.responses[1].body.details # ""

C5_Witness ==
    \E r \in ReqIds :
        /\ reqs[r].wr = "failed" /\ Done(r)
        /\ Answered(r, 500, "error", "serial_error")
        /\ reqs[r].responses[1].body.details # ""

\* C6 as stated: every request that is neither POST /wind-speed nor OPTIONS
\* is answered 404.
C6_OthersAre404 ==
    \A r \in ReqIds :
        (Done(r) /\ ~IsWindPost(reqs[r].in) /\ reqs[r].in.method # "OPTIONS")
        => (Len(reqs[r].responses) = 1 /\ reqs[r].responses[1].status = 404)

\* C6, amended: a POST to a path other than /wind-speed is answered 404
\* {"error":"not_found"}; a request with a method other than POST and OPTIONS
\* is answered 501.
C6_PostElsewhereIs404 ==
    \A r \in ReqIds :
        Done(r) =>
          /\ (reqs[r].in.method = "POST" /\ reqs[r].in.path # WIND_PATH)
                => Answered(r, 404, "error", "not_found")
          /\ reqs[r].in.method \notin {"POST", "OPTIONS"}
                => (Len(reqs[r].responses) = 1 /\ reqs[r].responses[1].status = 501)

C6_Witness ==
    \E r \in ReqIds :
        /\ Done(r) /\ reqs[r].in.method = "POST" /\ reqs[r].in.path = "/other"
        /\ Answered(r, 404, "error", "not_found")

\* C7: a request calls the serial write at most once, also when the write
\* fails; a request answered 404, 400 or 204 has made no call and has put no
\* byte on the wire; only a request that reached the Forward step has.
C7_AtMostOneWrite ==
    \A r \in ReqIds :
        LET h == reqs[r]
            onWire == {i \in 1..Len(wire) : wire[i].r = r}
        IN /\ Len(h.calls) <= 1
           /\ (Done(r) /\ \E i \in 1..Len(h.responses) :
                              h.responses[i].status \in {404, 400, 204})
                => (h.calls = <<>> /\ onWire = {})
           /\ (h.calls # <<>> \/ onWire # {})
                => (IsWindPost(h.in) /\ h.pc \in {"writing", "respond_ok", "done"}
                    /\ h.message # <<>>)

C7_Witness ==
    \E r \in ReqIds :
        /\ Done(r) /\ reqs[r].wr = "failed" /\ Len(reqs[r].calls) = 1
        /\ reqs[r].responses[1].status = 500

\* C8: a request that is inside the serial write eventually reaches a
\* terminal state, as long as the process runs.
C8_WriteTerminates ==
    \A r \in ReqIds :
        (reqs[r].pc = "writing") ~> (Done(r) \/ ~Running)

\* C9: when the serial port cannot be opened, the process exits with status
\* 1, no listener exists and no request is accepted.
C9_OpenFailureIsFatal ==
    ser = "failed" =>
        /\ mainPc = "exited" /\ exitCode = 1
        /\ ~listening /\ serial_conn = "None"
        /\ nreq = 0 /\ \A r \in ReqIds : reqs[r].pc = "idle"

C9_Witness == ser = "failed" /\ mainPc = "exited" /\ exitCode = 1

C11_StalledReadBlocksNobody ==
    \A r1 \in ReqIds :
        (Running /\ reqs[r1].pc = "reading") =>
          /\ (mainPc = "serving" /\ nreq < MaxReq) => ENABLED Accept
          /\ \A r2 \in ReqIds \ {r1} :
                reqs[r2].pc \in {"dispatch", "forward", "respond_ok"}
                    => ENABLED HandlerStep(r2)

\* A request accepted after the stalled one has been answered 200 while the
\* first is still waiting for its body.
C11_Witness ==
    \E r1, r2 \in ReqIds :
        /\ r1 # r2 /\ reqs[r1].pc = "reading"
        /\ Done(r2) /\ Answered(r2, 200, "status", "ok")

\* C12: an OPTIONS request on any path is answered 204 with no body; its
\* handler reads no body, parses nothing and makes no serial write.
C12_OptionsIs204 ==
    \A r \in ReqIds :
        (Done(r) /\ reqs[r].in.method = "OPTIONS")
        => /\ Answered(r, 204, "none", "")
           /\ reqs[r].readCalls = 0 /\ ~reqs[r].parsed
           /\ reqs[r].calls = <<>>
           /\ \A i \in 1..Len(wire) : wire[i].r # r

C12_Witness ==
    \E r \in ReqIds :
        /\ Done(r) /\ reqs[r].in.method = "OPTIONS" /\ reqs[r].in.path = "/other"
        /\ reqs[r].in.body # <<>>
        /\ Answered(r, 204, "none", "")

\* C13: no handler calls the serial write on a handle that has been closed,
\* no handler is inside the write when the handle is closed, and close is
\* called at most once.
C13_NoWriteAfterClose ==
    /\ closeCount <= 1
    /\ \A r \in ReqIds :
          /\ reqs[r].pc = "writing" => ser = "open"
          /\ \A i \in 1..Len(reqs[r].responses) :
                reqs[r].responses[i].body.details # PORT_NOT_OPEN

DigitChars == {Digits[i] : i \in 1..Len(Digits)}

\* A finite decimal number with one digit after the point, then a newline.
IsDecimalLine(m) ==
    LET n == Len(m)
        first == IF m[1] = "-" THEN 2 ELSE 1
    IN /\ n >= 4
       /\ m[n] = "\n" /\ m[n - 1] \in DigitChars /\ m[n - 2] = "."
       /\ first <= n - 3
       /\ \A i \in first..(n - 3) : m[i] \in DigitChars

\* C14: every line handed to the serial write is a finite decimal number
\* with exactly one digit after the point, followed by one newline.
C14_OnlyFiniteDecimalLines ==
    \A r \in ReqIds : \A i \in 1..Len(reqs[r].calls) :
        IsDecimalLine(reqs[r].calls[i])

\* C15: a POST that does not end in Ok has received exactly one response,
\* whose JSON body has an error key; and after it the server still accepts.
C15_FailureIsContained ==
    \A r \in ReqIds :
        (Done(r) /\ reqs[r].in.method = "POST" /\ ~Answered(r, 200, "status", "ok"))
        => /\ Len(reqs[r].responses) = 1
           /\ reqs[r].responses[1].body.kind = "error"
           /\ (Running /\ mainPc = "serving" /\ nreq < MaxReq) => ENABLED Accept

\* C16: a POST to a path other than /wind-speed never has its body read or
\* parsed, whatever its body and Content-Length are, makes no write, and once
\* handled it has been answered 404 {"error":"not_found"}.
C16_PathCheckFirst ==
    \A r \in ReqIds :
        (reqs[r].in.method = "POST" /\ reqs[r].in.path # WIND_PATH)
        => /\ reqs[r].readCalls = 0 /\ ~reqs[r].parsed
           /\ reqs[r].pc \in {"dispatch", "done"}
           /\ reqs[r].calls = <<>>
           /\ Done(r) => (Answered(r, 404, "error", "not_found") /\ reqs[r].exc = "none")

C16_Witness ==
    \E r \in ReqIds :
        /\ Done(r) /\ reqs[r].in.method = "POST" /\ reqs[r].in.path = "/other"
        /\ reqs[r].in.cl.kind = "text"
        /\ Answered(r, 404, "error", "not_found") /\ reqs[r].readCalls = 0

\* C17: no request is sent two responses, and every POST that do_POST has
\* handled has been sent exactly one.
C17_ExactlyOneResponse ==
    \A r \in ReqIds :
        /\ Len(reqs[r].responses) <= 1
        /\ (Done(r) /\ reqs[r].in.method = "POST") => Len(reqs[r].responses) = 1

====
